---- MODULE Spec2Model ----
(***************************************************************************)
(* Model of BOTfinal.py: the console address book (Phone, Birthday,        *)
(* Record, AddressBook), its command handlers and the read loop of main.   *)
(*                                                                         *)
(* A Python str is a sequence of one-character strings, so validation,     *)
(* parsing and formatting are computed character by character.  Contact    *)
(* names and command words are opaque tokens (TLA+ strings).  A date is a  *)
(* record [year, month, day]; an optional value (Birthday | None) is a     *)
(* sequence of length 0 or 1.                                              *)
(***************************************************************************)
EXTENDS Integers, Sequences, FiniteSets, TLC

VARIABLES book, last, pc, saved

vars == <<book, last, pc, saved>>

(***************************************************************************)
(* Bounds of the model.                                                    *)
(***************************************************************************)
\* Most phone entries the whole directory holds (the code has no limit).
MaxPhones == 2
\* The years date.today() is drawn from when the birthday query is checked.
FirstYear == 2023
LastYear == 2024

(***************************************************************************)
(* Characters.                                                             *)
(***************************************************************************)
AsciiDigits == {"0", "1", "2", "3", "4", "5", "6", "7", "8", "9"}
\* U+00B2 SUPERSCRIPT TWO: str.isdigit() is True, it is no decimal digit.
SuperTwo == "U+00B2"
\* U+0662 ARABIC-INDIC DIGIT TWO: a decimal digit (category Nd) outside ASCII.
ArabicTwo == "U+0662"

\* str.isdigit() of one character.
IsDigitChar(c) == c \in AsciiDigits \cup {SuperTwo, ArabicTwo}

\* str.isdigit(): every character is a digit and there is at least one.
isdigit(s) == Len(s) > 0 /\ \A i \in 1..Len(s) : IsDigitChar(s[i])

\* What the regex class \d of a str pattern matches: the decimal digits.
IsDecimalChar(c) == c \in AsciiDigits \cup {ArabicTwo}

\* int() of one decimal digit.
DigitValue(c) ==
    CASE c = "0" -> 0 [] c = "1" -> 1 [] c = "2" -> 2 [] c = "3" -> 3
      [] c = "4" -> 4 [] c = "5" -> 5 [] c = "6" -> 6 [] c = "7" -> 7
      [] c = "8" -> 8 [] c = "9" -> 9 [] c = ArabicTwo -> 2

\* int() of a string of decimal digits.
RECURSIVE IntOf(_)
IntOf(s) ==
    IF s = <<>> THEN 0
    ELSE 10 * IntOf(SubSeq(s, 1, Len(s) - 1)) + DigitValue(s[Len(s)])

DigitChar(n) ==
    CASE n = 0 -> "0" [] n = 1 -> "1" [] n = 2 -> "2" [] n = 3 -> "3"
      [] n = 4 -> "4" [] n = 5 -> "5" [] n = 6 -> "6" [] n = 7 -> "7"
      [] n = 8 -> "8" [] n = 9 -> "9"

\* The decimal numeral of n, without padding.
RECURSIVE Numeral(_)
Numeral(n) ==
    IF n < 10 THEN <<DigitChar(n)>>
    ELSE Numeral(n \div 10) \o <<DigitChar(n % 10)>>

\* strftime's %d and %m: two digits, zero padded.
TwoDigits(n) == <<DigitChar(n \div 10), DigitChar(n % 10)>>

\* str.lower() of the words of the model that hold capitals
lower(word) ==
    CASE word = "ADD" -> "add"
      [] word = "Exit" -> "exit"
      [] word = "Ann" -> "ann"
      [] word = "Bob" -> "bob"
      [] OTHER -> word

(***************************************************************************)
(* Results of calls: a value returned, or an exception raised.             *)
(***************************************************************************)
Return(v) == [ok |-> TRUE, val |-> v, exc |-> "", msg |-> ""]
Raise(type, message) == [ok |-> FALSE, val |-> <<>>, exc |-> type, msg |-> message]

(***************************************************************************)
(* datetime.date                                                           *)
(***************************************************************************)
Date(y, m, d) == [year |-> y, month |-> m, day |-> d]

IsLeap(y) == (y % 4 = 0 /\ y % 100 # 0) \/ y % 400 = 0

DaysInMonth(y, m) ==
    CASE m \in {1, 3, 5, 7, 8, 10, 12} -> 31
      [] m \in {4, 6, 9, 11} -> 30
      [] m = 2 -> IF IsLeap(y) THEN 29 ELSE 28

\* The check of the date constructor (MINYEAR = 1, MAXYEAR = 9999).
ValidDate(y, m, d) ==
    /\ y \in 1..9999
    /\ m \in 1..12
    /\ d >= 1
    /\ d <= DaysInMonth(y, m)

\* Days in the months of year y before month m.
RECURSIVE DaysBeforeMonth(_, _)
DaysBeforeMonth(y, m) ==
    IF m = 1 THEN 0 ELSE DaysBeforeMonth(y, m - 1) + DaysInMonth(y, m - 1)

\* date.toordinal(): 1 for 0001-01-01.
toordinal(dt) ==
    LET y == dt.year - 1
    IN  y * 365 + (y \div 4) - (y \div 100) + (y \div 400)
          + DaysBeforeMonth(dt.year, dt.month) + dt.day

\* date.weekday(): Monday is 0, Sunday is 6.
weekday(dt) == (toordinal(dt) + 6) % 7

\* dt + timedelta(days=1)
NextDay(dt) ==
    IF dt.day < DaysInMonth(dt.year, dt.month) THEN Date(dt.year, dt.month, dt.day + 1)
    ELSE IF dt.month < 12 THEN Date(dt.year, dt.month + 1, 1)
    ELSE Date(dt.year + 1, 1, 1)

\* dt + timedelta(days=n), n >= 0
RECURSIVE AddDays(_, _)
AddDays(dt, n) == IF n = 0 THEN dt ELSE AddDays(NextDay(dt), n - 1)

\* dt.replace(year=y): the constructor rejects 29 February of a common year.
replace_year(dt, y) ==
    IF ValidDate(y, dt.month, dt.day) THEN Return(Date(y, dt.month, dt.day))
    ELSE Raise("ValueError", "day is out of range for month")

\* a < b on dates
DateLess(a, b) == toordinal(a) < toordinal(b)

\* dt.strftime("%d.%m.%Y")
strftime_dmY(dt) ==
    TwoDigits(dt.day) \o <<".">> \o TwoDigits(dt.month) \o <<".">> \o Numeral(dt.year)

\* dt.strftime("%Y.%m.%d")
strftime_Ymd(dt) ==
    Numeral(dt.year) \o <<".">> \o TwoDigits(dt.month) \o <<".">> \o TwoDigits(dt.day)

(***************************************************************************)
(* datetime.strptime(value, "%d.%m.%Y").date()                             *)
(*                                                                         *)
(* _strptime turns the format into the regular expression                  *)
(*   (?P<d>3[0-1]|[1-2]\d|0[1-9]|[1-9]| [1-9])\.                           *)
(*   (?P<m>1[0-2]|0[1-9]|[1-9])\.(?P<Y>\d\d\d\d)                           *)
(* matches it at the start of the string, refuses unconverted data after   *)
(* the match, and builds the date from the three numbers.                  *)
(***************************************************************************)
At(s, i) == IF i >= 1 /\ i <= Len(s) THEN s[i] ELSE ""

\* The alternatives of group d, in the order the regex tries them: each is
\* <<length matched, first index of the digits>> when it matches at i.
DayAlternatives(s, i) ==
    LET a == At(s, i)
        b == At(s, i + 1)
        alt1 == IF a = "3" /\ b \in {"0", "1"} THEN <<<<2, i>>>> ELSE <<>>
        alt2 == IF a \in {"1", "2"} /\ IsDecimalChar(b) THEN <<<<2, i>>>> ELSE <<>>
        alt3 == IF a = "0" /\ b \in AsciiDigits \ {"0"} THEN <<<<2, i>>>> ELSE <<>>
        alt4 == IF a \in AsciiDigits \ {"0"} THEN <<<<1, i>>>> ELSE <<>>
        alt5 == IF a = " " /\ b \in AsciiDigits \ {"0"} THEN <<<<2, i + 1>>>> ELSE <<>>
    IN  alt1 \o alt2 \o alt3 \o alt4 \o alt5

MonthAlternatives(s, i) ==
    LET a == At(s, i)
        b == At(s, i + 1)
        alt1 == IF a = "1" /\ b \in {"0", "1", "2"} THEN <<<<2, i>>>> ELSE <<>>
        alt2 == IF a = "0" /\ b \in AsciiDigits \ {"0"} THEN <<<<2, i>>>> ELSE <<>>
        alt3 == IF a \in AsciiDigits \ {"0"} THEN <<<<1, i>>>> ELSE <<>>
    IN  alt1 \o alt2 \o alt3

\* (?P<Y>\d\d\d\d) at index i
YearMatch(s, i) == \A k \in 0..3 : At(s, i + k) # "" /\ IsDecimalChar(At(s, i + k))

\* The first of the alternatives `alts` of m at index i that lets \.(?P<Y>...)
\* match after it: <<index after the whole match, first index of m, length
\* of m>>, or <<>> when none does.
FirstMonth(s, i, alts) ==
    LET good == {k \in 1..Len(alts) :
                    At(s, i + alts[k][1]) = "." /\ YearMatch(s, i + alts[k][1] + 1)}
    IN  IF good = {} THEN <<>>
        ELSE LET k == CHOOSE x \in good : \A z \in good : x <= z
             IN  <<i + alts[k][1] + 5, i, alts[k][1]>>

\* \.(?P<m>...)\.(?P<Y>...) at index i
MonthYearMatch(s, i) ==
    IF At(s, i) # "." THEN <<>> ELSE FirstMonth(s, i + 1, MonthAlternatives(s, i + 1))

\* The first of the alternatives `alts` of d whose rest of the pattern matched
\* (rests[k] is the match after alts[k]): the groups and the end of the match,
\* or <<>> when there is no match.
FirstDay(s, alts, rests) ==
    LET good == {k \in 1..Len(alts) : rests[k] # <<>>}
    IN  IF good = {} THEN <<>>
        ELSE LET k == CHOOSE x \in good : \A z \in good : x <= z
             IN  <<[d |-> SubSeq(s, alts[k][2], alts[k][1]),
                    m |-> SubSeq(s, rests[k][2], rests[k][2] + rests[k][3] - 1),
                    Y |-> SubSeq(s, rests[k][1] - 4, rests[k][1] - 1),
                    end |-> rests[k][1] - 1]>>

\* The match after each alternative of d
Rests(s, alts) == [k \in 1..Len(alts) |-> MonthYearMatch(s, 1 + alts[k][1])]

\* re.match of the whole pattern
RegexMatch(s, alts) == FirstDay(s, alts, Rests(s, alts))

\* The date of a match: unconverted data and impossible dates are refused.
DateOfMatch(value, found) ==
    IF found = <<>> THEN
        Raise("ValueError", "time data does not match format '%d.%m.%Y'")
    ELSE IF found[1].end # Len(value) THEN
        Raise("ValueError", "unconverted data remains")
    ELSE IF ValidDate(IntOf(found[1].Y), IntOf(found[1].m), IntOf(found[1].d))
    THEN Return(Date(IntOf(found[1].Y), IntOf(found[1].m), IntOf(found[1].d)))
    ELSE Raise("ValueError", "day is out of range for month")

strptime_dmY(value) == DateOfMatch(value, RegexMatch(value, DayAlternatives(value, 1)))

(***************************************************************************)
(* Phone                                                                   *)
(***************************************************************************)
\* Phone._validate
Phone_validate(value) ==
    IF ~(isdigit(value) /\ Len(value) = 10)
    THEN Raise("ValueError", "Phone number must contain exactly 10 digits.")
    ELSE Return(value)

\* Phone.__init__: the new Phone's value
Phone_init(value) == Phone_validate(value)

\* Phone.value setter: the Phone's value after `ph.value = new_value`
Phone_set_value(old_value, new_value) == Phone_validate(new_value)

(***************************************************************************)
(* Birthday                                                                *)
(***************************************************************************)
\* Birthday.__init__: the date stored
Birthday_init(value) ==
    LET dt == strptime_dmY(value)
    IN  IF dt.ok THEN Return(dt.val)
        ELSE Raise("ValueError", "Invalid date format. Use DD.MM.YYYY")

\* Birthday.__str__
Birthday_str(bday) == strftime_dmY(bday)

(***************************************************************************)
(* Record                                                                  *)
(***************************************************************************)
\* Record.__init__
Record_init(name) == [name |-> name, phones |-> <<>>, birthday |-> <<>>]

\* Record.add_phone that skips a number the record already holds
Record_add_phone_dedup(record, phone) ==
    LET ph == Phone_init(phone)
    IN  IF ~ph.ok THEN ph
        ELSE IF \E i \in 1..Len(record.phones) : record.phones[i] = ph.val
        THEN Return(record)
        ELSE Return([record EXCEPT !.phones = Append(@, ph.val)])

\* Record.add_phone
Record_add_phone(record, phone) ==
    LET ph == Phone_init(phone)
    IN  IF ph.ok THEN Return([record EXCEPT !.phones = Append(@, ph.val)])
        ELSE ph

\* Record.find_phone: the position of the Phone found, 0 for None
Record_find_phone(record, phone) ==
    LET hits == {i \in 1..Len(record.phones) : record.phones[i] = phone}
    IN  IF hits = {} THEN 0 ELSE CHOOSE i \in hits : \A j \in hits : i <= j

\* list.remove of the element at position i
RemoveAt(s, i) == SubSeq(s, 1, i - 1) \o SubSeq(s, i + 1, Len(s))

\* Record.remove_phone
Record_remove_phone(record, phone) ==
    LET ph == Record_find_phone(record, phone)
    IN  IF ph # 0 THEN [record EXCEPT !.phones = RemoveAt(@, ph)] ELSE record

\* Record.edit_phone
Record_edit_phone(record, old, new) ==
    LET ph == Record_find_phone(record, old)
    IN  IF ph = 0 THEN Raise("ValueError", "Old phone number not found.")
        ELSE LET set == Phone_set_value(record.phones[ph], new)
             IN  IF set.ok THEN Return([record EXCEPT !.phones[ph] = set.val])
                 ELSE set

\* Record.add_birthday
Record_add_birthday(record, bday) ==
    LET b == Birthday_init(bday)
    IN  IF b.ok THEN Return([record EXCEPT !.birthday = <<b.val>>])
        ELSE b

\* "; ".join(p.value for p in self.phones)
RECURSIVE JoinPhones(_)
JoinPhones(phones) ==
    IF Len(phones) = 1 THEN phones[1]
    ELSE phones[1] \o <<";", " ">> \o JoinPhones(Tail(phones))

\* Record.__str__, after "Contact name: <name>, phones: "
Record_str(record) ==
    LET phones == IF record.phones # <<>> THEN JoinPhones(record.phones)
                  ELSE <<"n", "o", " ", "p", "h", "o", "n", "e", "s">>
    IN  IF record.birthday # <<>>
        THEN phones \o <<",", " ">> \o Birthday_str(record.birthday[1])
        ELSE phones

(***************************************************************************)
(* AddressBook: the dict `data`, as its entries in insertion order.        *)
(***************************************************************************)
\* The position of key `name` in the dict, 0 when it is absent.
KeyIndex(b, name) ==
    LET hits == {i \in 1..Len(b) : b[i].key = name}
    IN  IF hits = {} THEN 0 ELSE CHOOSE i \in hits : TRUE

\* AddressBook.add_record that keys the record by its name in lower case
AddressBook_add_record_lower(b, record) ==
    LET i == KeyIndex(b, lower(record.name))
    IN  IF i = 0 THEN Append(b, [key |-> lower(record.name), rec |-> record])
        ELSE [b EXCEPT ![i].rec = record]

\* AddressBook.add_record: self.data[record.name.value] = record
AddressBook_add_record(b, record) ==
    LET i == KeyIndex(b, record.name)
    IN  IF i = 0 THEN Append(b, [key |-> record.name, rec |-> record])
        ELSE [b EXCEPT ![i].rec = record]

\* AddressBook.find: the record as an optional value
AddressBook_find(b, name) ==
    LET i == KeyIndex(b, name)
    IN  IF i = 0 THEN <<>> ELSE <<b[i].rec>>

\* AddressBook.delete
AddressBook_delete(b, name) ==
    LET i == KeyIndex(b, name)
    IN  IF i # 0 THEN RemoveAt(b, i) ELSE b

\* A method that changed the record found under `name`: Python mutates the
\* object the dict holds.
Mutate(b, name, record) == [b EXCEPT ![KeyIndex(b, name)].rec = record]

\* The weekend adjustment as one if/elif that adds a single day in both cases
WeekendRollover_OneDay(congratulation_date) ==
    IF weekday(congratulation_date) = 5 THEN AddDays(congratulation_date, 1)
    ELSE IF weekday(congratulation_date) = 6 THEN AddDays(congratulation_date, 1)
    ELSE congratulation_date

\* The weekend adjustment of get_upcoming_birthdays
WeekendRollover(congratulation_date) ==
    LET c1 == IF weekday(congratulation_date) = 5
              THEN AddDays(congratulation_date, 2) ELSE congratulation_date
    IN  IF weekday(c1) = 6 THEN AddDays(c1, 1) ELSE c1

\* The window test of get_upcoming_birthdays
InWindow(diff) == 0 <= diff /\ diff <= 7

\* One iteration of the loop of get_upcoming_birthdays: the items it appends
UpcomingOf(record, today) ==
    IF record.birthday = <<>> THEN Return(<<>>)
    ELSE LET bday == record.birthday[1]
             this_year == replace_year(bday, today.year)
         IN  IF ~this_year.ok THEN this_year
             ELSE LET next_year == IF DateLess(this_year.val, today)
                                   THEN replace_year(this_year.val, today.year + 1)
                                   ELSE this_year
                  IN  IF ~next_year.ok THEN next_year
                      ELSE LET birthday_this_year == next_year.val
                               diff == toordinal(birthday_this_year) - toordinal(today)
                           IN  IF InWindow(diff)
                               THEN Return(<<[name |-> record.name,
                                              chars |-> strftime_Ymd(
                                                  WeekendRollover(birthday_this_year))]>>)
                               ELSE Return(<<>>)

\* The loop of get_upcoming_birthdays from entry i on, `result` so far
RECURSIVE UpcomingFrom(_, _, _, _)
UpcomingFrom(b, today, i, result) ==
    IF i > Len(b) THEN Return(result)
    ELSE LET item == UpcomingOf(b[i].rec, today)
         IN  IF item.ok THEN UpcomingFrom(b, today, i + 1, result \o item.val)
             ELSE item

\* AddressBook.get_upcoming_birthdays, date.today() being `today`
get_upcoming_birthdays(b, today) == UpcomingFrom(b, today, 1, <<>>)

(***************************************************************************)
(* Strings the handlers build.  A literal is its text; an f-string or a    *)
(* join keeps its fixed text and the parts put into it: `msg` a message,   *)
(* `data` a list of [name, chars] parts.                                   *)
(***************************************************************************)
Out(kind, text, msg, data) == [kind |-> kind, text |-> text, msg |-> msg, data |-> data]

Literal(text) == Out("literal", text, "", <<>>)

Part(name, chars) == [name |-> name, chars |-> chars]

\* str(e): KeyError shows the repr of its argument.
ExcStr(res) == IF res.exc = "KeyError" THEN "'" \o res.msg \o "'" ELSE res.msg

\* input_error that catches ValueError and KeyError only
input_error_narrow(res) ==
    IF res.ok THEN res
    ELSE IF res.exc \in {"ValueError", "KeyError"}
    THEN Return(Out("fstring", "Error: ", ExcStr(res), <<>>))
    ELSE res

\* The decorator input_error, applied to what the wrapped function did.
input_error(res) ==
    IF res.ok THEN res
    ELSE IF res.exc \in {"ValueError", "KeyError", "IndexError"}
    THEN Return(Out("fstring", "Error: ", ExcStr(res), <<>>))
    ELSE Return(Out("fstring", "Unexpected error: ", ExcStr(res), <<>>))

\* A handler leaves the directory as `b` and returns or raises `res`.
Done(b, res) == [book |-> b, res |-> res]

Decorated(r) == Done(r.book, input_error(r.res))

\* `a, b, c = args[:n]` with too few values
UnpackError(n, args) ==
    Raise("ValueError", "not enough values to unpack (expected " \o ToString(n)
                          \o ", got " \o ToString(Len(args)) \o ")")

(***************************************************************************)
(* Command handlers                                                        *)
(***************************************************************************)
add_contact_body(args, b) ==
    IF Len(args) < 2 THEN Done(b, Raise("IndexError", "list index out of range"))
    ELSE LET name == args[1]
             phone == args[2]
             found == AddressBook_find(b, name)
             b1 == IF found = <<>> THEN AddressBook_add_record(b, Record_init(name))
                   ELSE b
             message == IF found = <<>> THEN "Contact added." ELSE "Contact updated."
             record == AddressBook_find(b1, name)[1]
             added == Record_add_phone(record, phone)
         IN  IF added.ok THEN Done(Mutate(b1, name, added.val), Return(Literal(message)))
             ELSE Done(b1, added)

add_contact(args, b) == Decorated(add_contact_body(args, b))

change_contact_body(args, b) ==
    IF Len(args) < 3 THEN Done(b, UnpackError(3, args))
    ELSE LET name == args[1]
             old_phone == args[2]
             new_phone == args[3]
             record == AddressBook_find(b, name)
         IN  IF record = <<>> THEN Done(b, Raise("KeyError", "Contact not found."))
             ELSE LET edited == Record_edit_phone(record[1], old_phone, new_phone)
                  IN  IF edited.ok
                      THEN Done(Mutate(b, name, edited.val),
                                Return(Literal("Phone changed.")))
                      ELSE Done(b, edited)

change_contact(args, b) == Decorated(change_contact_body(args, b))

show_phone_body(args, b) ==
    IF Len(args) < 1 THEN Done(b, Raise("IndexError", "list index out of range"))
    ELSE LET record == AddressBook_find(b, args[1])
         IN  IF record = <<>> THEN Done(b, Raise("KeyError", "Contact not found."))
             ELSE IF record[1].phones = <<>> THEN Done(b, Return(Literal("No phones.")))
             ELSE Done(b, Return(Out("join", ", ", "",
                      [i \in 1..Len(record[1].phones) |->
                          Part("", record[1].phones[i])])))

show_phone(args, b) == Decorated(show_phone_body(args, b))

show_all(b) ==
    IF b = <<>> THEN Done(b, Return(Literal("No contacts.")))
    ELSE Done(b, Return(Out("join", "\n", "",
             [i \in 1..Len(b) |-> Part(b[i].rec.name, Record_str(b[i].rec))])))

add_birthday_body(args, b) ==
    IF Len(args) < 2 THEN Done(b, UnpackError(2, args))
    ELSE LET name == args[1]
             bday == args[2]
             record == AddressBook_find(b, name)
         IN  IF record = <<>> THEN Done(b, Raise("KeyError", "Contact not found."))
             ELSE LET set == Record_add_birthday(record[1], bday)
                  IN  IF set.ok
                      THEN Done(Mutate(b, name, set.val),
                                Return(Literal("Birthday added.")))
                      ELSE Done(b, set)

add_birthday(args, b) == Decorated(add_birthday_body(args, b))

show_birthday_body(args, b) ==
    IF Len(args) < 1 THEN Done(b, Raise("IndexError", "list index out of range"))
    ELSE LET record == AddressBook_find(b, args[1])
         IN  IF record = <<>> THEN Done(b, Raise("KeyError", "Contact not found."))
             ELSE IF record[1].birthday = <<>>
             THEN Done(b, Return(Literal("No birthday set.")))
             ELSE Done(b, Return(Out("str", "", "",
                      <<Part("", Birthday_str(record[1].birthday[1]))>>)))

show_birthday(args, b) == Decorated(show_birthday_body(args, b))

\* birthdays: each line is f"{congratulation_date}: {name}"
birthdays_body(args, b, today) ==
    LET upcoming == get_upcoming_birthdays(b, today)
    IN  IF ~upcoming.ok THEN Done(b, upcoming)
        ELSE IF upcoming.val = <<>>
        THEN Done(b, Return(Literal("No birthdays next week.")))
        ELSE Done(b, Return(Out("join", "\n", "", upcoming.val)))

birthdays(args, b, today) == Decorated(birthdays_body(args, b, today))

(***************************************************************************)
(* parse_input, on the words user_input.split() gives.                     *)
(***************************************************************************)
parse_input(parts) ==
    IF Len(parts) = 0 THEN [cmd |-> "", args |-> <<>>]
    ELSE [cmd |-> lower(parts[1]), args |-> Tail(parts)]

(***************************************************************************)
(* Persistence: the file holds nothing or one pickled directory.           *)
(***************************************************************************)
save_data(b) == <<b>>

load_data(file) == IF file = <<>> THEN <<>> ELSE file[1]

(***************************************************************************)
(* Inputs                                                                  *)
(***************************************************************************)
Names == {"Ann", "Bob"}

P1 == <<"1", "2", "3", "4", "5", "6", "7", "8", "9", "0">>
P2 == <<"0", "9", "8", "7", "6", "5", "4", "3", "2", "1">>
\* ten characters, the last one SUPERSCRIPT TWO
PSuper == <<"1", "2", "3", "4", "5", "6", "7", "8", "9", SuperTwo>>
PShort == <<"1", "2", "3">>
PAlpha == <<"1", "2", "3", "4", "5", "a", "7", "8", "9", "0">>

\* The phone numbers typed in a session.
PhoneInputs == {P1, P2, PSuper, PShort}

\* A date string: day, month and year joined by `sep`.
DateString(dd, sep, mm, yyyy) == dd \o <<sep>> \o mm \o <<sep>> \o yyyy

Y1990 == <<"1", "9", "9", "0">>
Y2000 == <<"2", "0", "0", "0">>
Y2024 == <<"2", "0", "2", "4">>

D_15_06_1990 == DateString(<<"1", "5">>, ".", <<"0", "6">>, Y1990)
D_29_02_2000 == DateString(<<"2", "9">>, ".", <<"0", "2">>, Y2000)
D_31_02_2024 == DateString(<<"3", "1">>, ".", <<"0", "2">>, Y2024)
D_1_1_2024 == DateString(<<"1">>, ".", <<"1">>, Y2024)
D_31_01_2024_dash == DateString(<<"3", "1">>, "-", <<"0", "1">>, Y2024)

\* The dates typed for Ann in a session; Bob is given 29.02.2000.
DateInputs == {D_15_06_1990, D_31_02_2024}

\* The values date.today() takes in a session.
TodayInputs == {Date(2024, 6, 10), Date(2023, 6, 10), Date(2024, 3, 5)}

CommandWords == {"hello", "add", "change", "phone", "all", "add-birthday",
                 "show-birthday", "birthdays", "exit", "close", "help", "Exit"}

\* The lines typed, as the words split() gives: a command word, then a name,
\* then phone numbers or a date.
Lines ==
    {<<>>}
      \cup {<<c>> : c \in CommandWords}
      \cup {<<c, "Ann">> : c \in {"add", "change", "add-birthday"}}
      \cup {<<c, n>> : c \in {"phone", "show-birthday"}, n \in Names}
      \cup {<<"add", n, p>> : n \in Names, p \in PhoneInputs}
      \cup {<<"ADD", "Ann", P1>>}
      \cup {<<"change", n, o, p>> : n \in Names, o \in {P1, P2},
                                    p \in {P2, PSuper, PShort}}
      \cup {<<"add-birthday", "Ann", d>> : d \in DateInputs}
      \cup {<<"add-birthday", "Bob", D_29_02_2000>>}

(***************************************************************************)
(* State                                                                   *)
(*   book  : the AddressBook of main                                       *)
(*   last  : the call or command processed last: its name and arguments,   *)
(*           the value date.today() gave it, what it printed or returned   *)
(*           (out), and the exception that left it (exc, msg)              *)
(*   pc    : "read" in the loop of main, "done" after exit, "crashed" when *)
(*           an exception left main                                        *)
(*   saved : the file addressbook.pkl                                      *)
(***************************************************************************)
Observe(cmd, args, today, res, idx) ==
    [cmd |-> cmd, args |-> args, today |-> today,
     out |-> IF res.ok THEN <<res.val>> ELSE <<>>,
     exc |-> res.exc, msg |-> res.msg, idx |-> idx]

RECURSIVE TotalPhones(_)
TotalPhones(b) ==
    IF b = <<>> THEN 0 ELSE Len(b[1].rec.phones) + TotalPhones(Tail(b))

\* main, to the first prompt
Init ==
    /\ saved = <<>>
    /\ book = load_data(saved)
    /\ last = Observe("main", <<>>, <<>>,
                      Return(Literal("Welcome to the assistant bot!")), 0)
    /\ pc = "read"

\* One pass of the loop of main that is not exit: the handler's result is printed.
MainStep(p, r, today) ==
    /\ TotalPhones(r.book) <= MaxPhones
    /\ book' = r.book
    /\ last' = Observe(p.cmd, p.args, today, r.res, 0)
    /\ pc' = IF r.res.ok THEN "read" ELSE "crashed"
    /\ UNCHANGED saved

CmdExit ==
    \E parts \in Lines :
        LET p == parse_input(parts)
        IN  /\ pc = "read"
            /\ p.cmd \in {"exit", "close"}
            /\ saved' = save_data(book)
            /\ last' = Observe(p.cmd, p.args, <<>>, Return(Literal("Good bye!")), 0)
            /\ pc' = "done"
            /\ UNCHANGED book

CmdHello ==
    \E parts \in Lines :
        LET p == parse_input(parts)
        IN  /\ pc = "read"
            /\ p.cmd = "hello"
            /\ MainStep(p, Done(book, Return(Literal("How can I help you?"))), <<>>)

CmdAdd ==
    \E parts \in Lines :
        LET p == parse_input(parts)
        IN  /\ pc = "read"
            /\ p.cmd = "add"
            /\ MainStep(p, add_contact(p.args, book), <<>>)

CmdChange ==
    \E parts \in Lines :
        LET p == parse_input(parts)
        IN  /\ pc = "read"
            /\ p.cmd = "change"
            /\ MainStep(p, change_contact(p.args, book), <<>>)

CmdPhone ==
    \E parts \in Lines :
        LET p == parse_input(parts)
        IN  /\ pc = "read"
            /\ p.cmd = "phone"
            /\ MainStep(p, show_phone(p.args, book), <<>>)

CmdAll ==
    \E parts \in Lines :
        LET p == parse_input(parts)
        IN  /\ pc = "read"
            /\ p.cmd = "all"
            /\ MainStep(p, show_all(book), <<>>)

CmdAddBirthday ==
    \E parts \in Lines :
        LET p == parse_input(parts)
        IN  /\ pc = "read"
            /\ p.cmd = "add-birthday"
            /\ MainStep(p, add_birthday(p.args, book), <<>>)

CmdShowBirthday ==
    \E parts \in Lines :
        LET p == parse_input(parts)
        IN  /\ pc = "read"
            /\ p.cmd = "show-birthday"
            /\ MainStep(p, show_birthday(p.args, book), <<>>)

CmdBirthdays ==
    \E parts \in Lines, today \in TodayInputs :
        LET p == parse_input(parts)
        IN  /\ pc = "read"
            /\ p.cmd = "birthdays"
            /\ MainStep(p, birthdays(p.args, book, today), <<today>>)

CmdInvalid ==
    \E parts \in Lines :
        LET p == parse_input(parts)
        IN  /\ pc = "read"
            /\ p.cmd \notin {"exit", "close", "hello", "add", "change", "phone", "all",
                             "add-birthday", "show-birthday", "birthdays"}
            /\ MainStep(p, Done(book, Return(Literal(
                   "Invalid command. Type: add / change / phone / all / add-birthday / show-birthday / birthdays / exit"))),
                   <<>>)

Next ==
    \/ CmdExit
    \/ CmdHello
    \/ CmdAdd
    \/ CmdChange
    \/ CmdPhone
    \/ CmdAll
    \/ CmdAddBirthday
    \/ CmdShowBirthday
    \/ CmdBirthdays
    \/ CmdInvalid

\* A session of main.
Spec == Init /\ [][Next]_vars

(***************************************************************************)
(* The classes and handlers called directly, as a client of the module     *)
(* calls them.                                                             *)
(***************************************************************************)
\* What a method that returns None returned.
NoneOut == Out("None", "", "", <<>>)

\* The record stored under `name`.
RecordOf(b, name) == b[KeyIndex(b, name)].rec

\* A call that left the directory as b2 and returned or raised `res`.
LibCall(cmd, args, idx, b2, res) ==
    /\ pc = "read"
    /\ TotalPhones(b2) <= MaxPhones
    /\ book' = b2
    /\ last' = Observe(cmd, args, <<>>, res, idx)
    /\ UNCHANGED <<pc, saved>>

\* A method of the record under `name` gave r: the record changed, or an exception.
MethodCall(cmd, args, idx, name, r) ==
    IF r.ok THEN LibCall(cmd, args, idx, Mutate(book, name, r.val), Return(NoneOut))
    ELSE LibCall(cmd, args, idx, book, Raise(r.exc, r.msg))

\* book.add_record(Record(name))
LibAddRecord ==
    \E n \in Names :
        LibCall("AddressBook.add_record", <<n>>, 0,
                AddressBook_add_record(book, Record_init(n)), Return(NoneOut))

\* book.delete(name)
LibDelete ==
    \E n \in Names :
        LibCall("AddressBook.delete", <<n>>, 0, AddressBook_delete(book, n),
                Return(NoneOut))

\* book.find(name).add_phone(raw)
LibAddPhone ==
    \E n \in Names, raw \in PhoneInputs :
        /\ KeyIndex(book, n) # 0
        /\ MethodCall("Record.add_phone", <<n, raw>>, 0, n,
                      Record_add_phone(RecordOf(book, n), raw))

\* book.find(name).remove_phone(raw)
LibRemovePhone ==
    \E n \in Names, raw \in {P1, P2} :
        /\ KeyIndex(book, n) # 0
        /\ MethodCall("Record.remove_phone", <<n, raw>>, 0, n,
                      Return(Record_remove_phone(RecordOf(book, n), raw)))

\* book.find(name).edit_phone(old, new)
LibEditPhone ==
    \E n \in Names, old \in {P1, P2}, new \in {P2, PSuper, PShort} :
        /\ KeyIndex(book, n) # 0
        /\ MethodCall("Record.edit_phone", <<n, old, new>>, 0, n,
                      Record_edit_phone(RecordOf(book, n), old, new))

\* book.find(name).phones[i - 1].value = raw
LibSetPhoneValue ==
    \E n \in Names, raw \in {P2, PShort} :
        /\ KeyIndex(book, n) # 0
        /\ \E i \in 1..Len(RecordOf(book, n).phones) :
              LET set == Phone_set_value(RecordOf(book, n).phones[i], raw)
              IN  MethodCall("Phone.value", <<n, raw>>, i, n,
                             IF set.ok
                             THEN Return([RecordOf(book, n) EXCEPT !.phones[i] = set.val])
                             ELSE set)

\* book.find(name).add_birthday(raw)
LibAddBirthday ==
    \E n \in Names, raw \in {D_15_06_1990, D_31_02_2024} :
        /\ KeyIndex(book, n) # 0
        /\ MethodCall("Record.add_birthday", <<n, raw>>, 0, n,
                      Record_add_birthday(RecordOf(book, n), raw))

\* A handler called with `args`: it returns the string main would print.
HandlerCall(cmd, args, r) == LibCall(cmd, args, 0, r.book, r.res)

LibAddContact ==
    \E n \in Names, raw \in {P1, PShort} :
        HandlerCall("add_contact", <<n, raw>>, add_contact(<<n, raw>>, book))

LibChangeContact ==
    \E n \in Names :
        HandlerCall("change_contact", <<n, P1, P2>>, change_contact(<<n, P1, P2>>, book))

LibHandlerAddBirthday ==
    \E n \in Names :
        HandlerCall("add_birthday", <<n, D_15_06_1990>>,
                    add_birthday(<<n, D_15_06_1990>>, book))

LibNext ==
    \/ LibAddRecord
    \/ LibDelete
    \/ LibAddPhone
    \/ LibRemovePhone
    \/ LibEditPhone
    \/ LibSetPhoneValue
    \/ LibAddBirthday
    \/ LibAddContact
    \/ LibChangeContact
    \/ LibHandlerAddBirthday

\* Any sequence of calls on one directory.
SpecLib == Init /\ [][LibNext]_vars

(***************************************************************************)
(* The birthday query on the directories a session builds, for every       *)
(* value of date.today() in the years FirstYear..LastYear.                 *)
(***************************************************************************)
D_16_06_1991 == DateString(<<"1", "6">>, ".", <<"0", "6">>, <<"1", "9", "9", "1">>)
D_31_12_1999 == DateString(<<"3", "1">>, ".", <<"1", "2">>, <<"1", "9", "9", "9">>)
D_01_01_1980 == DateString(<<"0", "1">>, ".", <<"0", "1">>, <<"1", "9", "8", "0">>)
D_28_02_1990 == DateString(<<"2", "8">>, ".", <<"0", "2">>, Y1990)

\* The birthdays set in those directories.
UpcomingDateInputs ==
    {D_15_06_1990, D_16_06_1991, D_29_02_2000, D_31_12_1999, D_01_01_1980, D_28_02_1990}

\* Record(name), and add_birthday(raw) on it when raw is given.
RecordWith(name, raw) ==
    IF raw = <<>> THEN Record_init(name)
    ELSE Record_add_birthday(Record_init(name), raw[1]).val

OptionalDates == {<<>>} \cup {<<raw>> : raw \in UpcomingDateInputs}

\* The directories of at most two contacts, in either insertion order.
UpcomingBooks ==
    {<<>>}
      \cup {AddressBook_add_record(<<>>, RecordWith(n, x)) :
               n \in Names, x \in OptionalDates}
      \cup {AddressBook_add_record(
                AddressBook_add_record(<<>>, RecordWith(n, x)),
                RecordWith(CHOOSE m \in Names : m # n, y)) :
               n \in Names, x \in OptionalDates, y \in OptionalDates}

Todays ==
    {Date(y, m, d) : y \in FirstYear..LastYear, m \in 1..12, d \in 1..31}
      \cap {dt \in [year : FirstYear..LastYear, month : 1..12, day : 1..31] :
               ValidDate(dt.year, dt.month, dt.day)}

\* The clock is read once: last.today holds the day the session runs on.
UpcomingInit ==
    /\ saved = <<>>
    /\ book \in UpcomingBooks
    /\ \E today \in Todays :
          last = Observe("main", <<>>, <<today>>,
                         Return(Literal("Welcome to the assistant bot!")), 0)
    /\ pc = "read"

\* book.get_upcoming_birthdays() on that day
QueryUpcoming ==
    LET today == last.today[1]
        r == get_upcoming_birthdays(book, today)
    IN  /\ pc = "read"
        /\ last' = Observe("AddressBook.get_upcoming_birthdays", <<>>, <<today>>,
                           IF r.ok THEN Return(Out("list", "", "", r.val))
                           ELSE Raise(r.exc, r.msg), 0)
        /\ UNCHANGED <<book, pc, saved>>

SpecUpcoming == UpcomingInit /\ [][QueryUpcoming]_vars


(***************************************************************************)
(* The field classes on their own: Phone(raw) and Birthday(raw) for many   *)
(* strings, each followed by str() of the object made.                     *)
(***************************************************************************)
DayWords ==
    {<<"0", "1">>, <<"1">>, <<"2", "9">>, <<"3", "1">>, <<"0", "0">>, <<"3", "2">>,
     <<" ", "1">>, <<"2", ArabicTwo>>}

MonthWords == {<<"0", "1">>, <<"1">>, <<"0", "2">>, <<"1", "2">>, <<"1", "3">>, <<"0", "0">>}

YearWords ==
    {Y2024, <<"2", "0", "2", "3">>, <<"2", "0", "2">>, <<"2", "0", "2", "4", "5">>,
     <<"2", "0", "2", "4", " ">>, <<"0", "0", "0", "0">>}

DateStrings ==
    {DateString(dd, sep, mm, yyyy) :
        dd \in DayWords, sep \in {".", "-"}, mm \in MonthWords, yyyy \in YearWords}
      \cup {D_15_06_1990, D_29_02_2000, D_31_02_2024, D_1_1_2024, D_31_01_2024_dash}

PhoneChars == {"0", "7", "a", "+", " ", "-", SuperTwo, ArabicTwo}

\* Nine digits followed by nothing, one or two more characters, and short ones.
PhoneStrings ==
    {<<>>, PShort, PAlpha, P2, PSuper}
      \cup {SubSeq(P1, 1, 9) \o tail :
               tail \in {<<>>} \cup {<<c>> : c \in PhoneChars}
                          \cup {<<c, d>> : c \in PhoneChars, d \in PhoneChars}}

\* str(Phone(raw)), or the exception
NewPhone ==
    \E raw \in PhoneStrings :
        LET ph == Phone_init(raw)
        IN  /\ pc = "read"
            /\ last' = Observe("Phone", <<"", raw>>, <<>>,
                               IF ph.ok THEN Return(Out("str", "", "", <<Part("", ph.val)>>))
                               ELSE Raise(ph.exc, ph.msg), 0)
            /\ UNCHANGED <<book, pc, saved>>

\* str(Birthday(raw)), or the exception
NewBirthday ==
    \E raw \in DateStrings :
        LET b == Birthday_init(raw)
        IN  /\ pc = "read"
            /\ last' = Observe("Birthday", <<"", raw>>, <<>>,
                               IF b.ok
                               THEN Return(Out("str", "", "", <<Part("", Birthday_str(b.val))>>))
                               ELSE Raise(b.exc, b.msg), 0)
            /\ UNCHANGED <<book, pc, saved>>

FieldsNext ==
    \/ NewPhone
    \/ NewBirthday

SpecFields == Init /\ [][FieldsNext]_vars


(***************************************************************************)
(* Properties                                                              *)
(***************************************************************************)
\* What the spec calls a phone number: exactly 10 ASCII decimal digits.
IsTenAsciiDigits(s) == Len(s) = 10 /\ \A i \in 1..10 : s[i] \in AsciiDigits

\* The items the last call returned (none when it raised).
Emitted(l) == IF l.out = <<>> THEN <<>> ELSE l.out[1].data

IsErrorString(o) == o.kind = "fstring" /\ o.text \in {"Error: ", "Unexpected error: "}

\* The occurrence of a birthday's month and day the spec counts from: in
\* today's year, or in the next year when that one is strictly before today;
\* none when that year has no such day.
ClaimOccurrence(bd, today) ==
    IF ~ValidDate(today.year, bd.month, bd.day) THEN <<>>
    ELSE IF toordinal(Date(today.year, bd.month, bd.day)) >= toordinal(today)
    THEN <<Date(today.year, bd.month, bd.day)>>
    ELSE IF ValidDate(today.year + 1, bd.month, bd.day)
    THEN <<Date(today.year + 1, bd.month, bd.day)>>
    ELSE <<>>

Qualifies(record, today) ==
    /\ record.birthday # <<>>
    /\ ClaimOccurrence(record.birthday[1], today) # <<>>
    /\ toordinal(ClaimOccurrence(record.birthday[1], today)[1]) - toordinal(today)
          \in 0..7

TimesEmitted(items, name) == Cardinality({k \in 1..Len(items) : items[k].name = name})

IsQuery(l) == l.cmd = "AddressBook.get_upcoming_birthdays"

\* C1: after get_upcoming_birthdays, a record is in the result exactly once
\* if it has a birthday whose occurrence is 0..7 days from today, and is not
\* in the result otherwise, for every directory and every today.
C1_UpcomingIffInWindow ==
    IsQuery(last) =>
        \A i \in 1..Len(book) :
            TimesEmitted(Emitted(last), book[i].rec.name)
                = IF Qualifies(book[i].rec, last.today[1]) THEN 1 ELSE 0

\* The same statement for the days on which no birthday of the directory is
\* a 29 February without an occurrence: there the query returns.
C1_WhenEveryBirthdayOccurs ==
    (/\ IsQuery(last)
     /\ \A i \in 1..Len(book) :
           book[i].rec.birthday # <<>> =>
               ClaimOccurrence(book[i].rec.birthday[1], last.today[1]) # <<>>)
        => C1_UpcomingIffInWindow

\* The date a "YYYY.MM.DD" string shows.
ParseYmd(chars) ==
    Date(IntOf(SubSeq(chars, 1, 4)), IntOf(SubSeq(chars, 6, 7)),
         IntOf(SubSeq(chars, 9, 10)))

\* The congratulation date the spec gives an occurrence.
ExpectedCongratulation(occ) ==
    IF weekday(occ) = 5 THEN AddDays(occ, 2)
    ELSE IF weekday(occ) = 6 THEN AddDays(occ, 1)
    ELSE occ

OccurrenceOf(item) ==
    ClaimOccurrence(RecordOf(book, item.name).birthday[1], last.today[1])[1]

\* C2: every congratulation date in the result is a Monday to Friday: a
\* Saturday occurrence moved 2 days on, a Sunday occurrence 1 day on, any
\* other occurrence unchanged.
C2_CongratulationOnWeekday ==
    IsQuery(last) =>
        \A k \in 1..Len(Emitted(last)) :
            LET item == Emitted(last)[k]
            IN  /\ item.chars = strftime_Ymd(ExpectedCongratulation(OccurrenceOf(item)))
                /\ weekday(ParseYmd(item.chars)) \in 0..4

\* A Saturday birthday was emitted as the Monday after it.
C2_Witness ==
    /\ IsQuery(last)
    /\ \E k \in 1..Len(Emitted(last)) :
          /\ weekday(OccurrenceOf(Emitted(last)[k])) = 5
          /\ ParseYmd(Emitted(last)[k].chars) = AddDays(OccurrenceOf(Emitted(last)[k]), 2)

\* C3: a command that returns an error string leaves the directory as it was.
C3_ErrorLeavesDirectory ==
    [][(/\ last'.cmd \in {"add", "change", "add-birthday", "phone", "show-birthday"}
        /\ Len(last'.out) = 1
        /\ IsErrorString(last'.out[1]))
          => book' = book]_vars

\* C4: every phone number stored in every record is exactly 10 ASCII
\* decimal digits.
C4_StoredPhonesAsciiTenDigits ==
    \A i \in 1..Len(book) :
        \A j \in 1..Len(book[i].rec.phones) : IsTenAsciiDigits(book[i].rec.phones[j])

\* C5: every key of the directory is the name of the record under it, no two
\* entries hold the same name, and find(name) gives a record named `name`.
C5_KeyEqualsName ==
    /\ \A i \in 1..Len(book) : book[i].key = book[i].rec.name
    /\ \A i, j \in 1..Len(book) : book[i].rec.name = book[j].rec.name => i = j
    /\ \A n \in Names :
          AddressBook_find(book, n) # <<>> => AddressBook_find(book, n)[1].name = n

\* add_contact just added a second contact to the directory.
C5_Witness ==
    /\ Len(book) = 2
    /\ last.cmd = "add_contact"
    /\ last.out = <<Literal("Contact added.")>>

\* C6: the birthdays command prints the lines of the upcoming birthdays or
\* "No birthdays next week.", never an error string.
C6_BirthdaysNeverError ==
    last.cmd = "birthdays" =>
        /\ Len(last.out) = 1
        /\ \/ last.out[1] = Literal("No birthdays next week.")
           \/ /\ last.out[1].kind = "join"
              /\ last.out[1].text = "\n"
              /\ Len(last.out[1].data) >= 1

\* DD.MM.YYYY with two-digit day and month, a four-digit year and a real date.
StrictDMY(raw) ==
    /\ Len(raw) = 10
    /\ raw[3] = "."
    /\ raw[6] = "."
    /\ \A i \in {1, 2, 4, 5, 7, 8, 9, 10} : raw[i] \in AsciiDigits
    /\ ValidDate(IntOf(SubSeq(raw, 7, 10)), IntOf(SubSeq(raw, 4, 5)),
                 IntOf(SubSeq(raw, 1, 2)))

\* C7: Birthday(raw) succeeds exactly for the strict DD.MM.YYYY strings of
\* real dates, str() of the birthday is then raw, and every other string
\* fails with "Invalid date format. Use DD.MM.YYYY".
C7_StrictFormatRoundTrip ==
    last.cmd = "Birthday" =>
        /\ last.out # <<>> <=> StrictDMY(last.args[2])
        /\ last.out # <<>> => last.out[1].data[1].chars = last.args[2]
        /\ last.out = <<>> => last.msg = "Invalid date format. Use DD.MM.YYYY"
        /\ last.args[2] \in {D_31_02_2024, D_1_1_2024, D_31_01_2024_dash}
              => last.out = <<>>

PhonesOf(b, name) ==
    IF AddressBook_find(b, name) = <<>> THEN <<>> ELSE AddressBook_find(b, name)[1].phones

\* C8: `add name phone` with a valid phone answers "Contact added." exactly
\* when the name was not in the directory and "Contact updated." otherwise,
\* and appends the phone to the end of the contact's phones, repeats kept.
C8_AddAppends ==
    [][(/\ last'.cmd = "add"
        /\ Len(last'.args) >= 2
        /\ IsTenAsciiDigits(last'.args[2]))
          => /\ Len(last'.out) = 1
             /\ last'.out[1] = Literal("Contact added.")
                   <=> AddressBook_find(book, last'.args[1]) = <<>>
             /\ last'.out[1] = Literal("Contact updated.")
                   <=> AddressBook_find(book, last'.args[1]) # <<>>
             /\ AddressBook_find(book', last'.args[1]) # <<>>
             /\ PhonesOf(book', last'.args[1])
                   = Append(PhonesOf(book, last'.args[1]), last'.args[2])]_vars

\* The same add was typed twice: the contact holds the phone twice.
C8_Witness ==
    /\ last.cmd = "add"
    /\ last.args = <<"Bob", P1>>
    /\ last.out = <<Literal("Contact updated.")>>
    /\ PhonesOf(book, "Bob") = <<P1, P1>>

FirstIndex(phones, phone) ==
    CHOOSE i \in 1..Len(phones) :
        phones[i] = phone /\ \A j \in 1..(i - 1) : phones[j] # phone

Contains(phones, phone) == \E i \in 1..Len(phones) : phones[i] = phone

\* edit_phone(old, new) on a record, `valid` telling the valid new numbers:
\* NotFound and no change when old is absent; the first old replaced in place
\* when new is valid; InvalidFormat and no change when it is not.
EditPhoneFrame(before, after, l, valid) ==
    LET old == l.args[2]
        new == l.args[3]
    IN  IF ~Contains(before, old)
        THEN /\ l.out = <<>>
             /\ l.msg = "Old phone number not found."
             /\ after = before
        ELSE IF valid
        THEN /\ l.out # <<>>
             /\ after = [before EXCEPT ![FirstIndex(before, old)] = new]
        ELSE /\ l.out = <<>>
             /\ l.msg = "Phone number must contain exactly 10 digits."
             /\ after = before

\* C9: editPhone fails NotFound without a change when old is absent, replaces
\* only the first old in place when new is a valid phone number (10 ASCII
\* digits), and fails InvalidFormat without a change when new is invalid.
C9_EditPhoneFrame ==
    [][last'.cmd = "Record.edit_phone"
          => EditPhoneFrame(PhonesOf(book, last'.args[1]), PhonesOf(book', last'.args[1]),
                            last', IsTenAsciiDigits(last'.args[3]))]_vars

\* The same frame with "valid" read as the check the code makes (isdigit and
\* length 10): this one holds.
C9_FrameUnderIsdigit ==
    [][last'.cmd = "Record.edit_phone"
          => EditPhoneFrame(PhonesOf(book, last'.args[1]), PhonesOf(book', last'.args[1]),
                            last', isdigit(last'.args[3]) /\ Len(last'.args[3]) = 10)]_vars

\* C10: every line but exit/close prints exactly one string and the loop
\* reads on; the session ends only on exit or close, which saves the
\* directory before "Good bye!"; no exception leaves main.
C10_LoopSurvives ==
    [][/\ pc = "read"
       /\ pc' # "crashed"
       /\ Len(last'.out) = 1
       /\ pc' = "done" <=> last'.cmd \in {"exit", "close"}
       /\ pc' = "done" => saved' = <<book>> /\ last'.out[1] = Literal("Good bye!")
       /\ pc' # "done" => pc' = "read" /\ saved' = saved]_vars

\* `add` without arguments printed its error and the loop reads on.
C10_Witness ==
    /\ pc = "read"
    /\ last.cmd = "add"
    /\ last.args = <<>>
    /\ last.out = <<Out("fstring", "Error: ", "list index out of range", <<>>)>>

====
